---- MODULE Spec2Model ----
(***************************************************************************)
(* Model of src/naming_checker.rs: the four per-file validators, the       *)
(* version extractor and the two cross-file checks of the Flyway naming    *)
(* checker.                                                                *)
(*                                                                         *)
(* A file name is a sequence of one-character strings.  A u32 is a pair    *)
(* <<hi, lo>> of 16-bit limbs (value hi * 65536 + lo), so that the full    *)
(* 32-bit range, its overflow included, is represented exactly.  An        *)
(* Option is a sequence of length 0 (None) or 1 (Some).                    *)
(***************************************************************************)
EXTENDS Integers, Sequences, FiniteSets

VARIABLES op, file_name, file_names, result

vars == <<op, file_name, file_names, result>>

(***************************************************************************)
(* Bounds of the explored inputs.                                          *)
(***************************************************************************)
MaxLen == 3
MaxFiles == 3

(***************************************************************************)
(* u32 arithmetic on 16-bit limbs.                                         *)
(***************************************************************************)
LimbBase == 65536

U32Max == <<LimbBase - 1, LimbBase - 1>>

U32Zero == <<0, 0>>

U32Le(a, b) == a[1] < b[1] \/ (a[1] = b[1] /\ a[2] <= b[2])

\* a + 1 in u32, wrapping at 2^32 (the sum of an unchecked build).
WrappingAddOne(a) ==
    IF a[2] = LimbBase - 1
    THEN IF a[1] = LimbBase - 1 THEN U32Zero ELSE <<a[1] + 1, 0>>
    ELSE <<a[1], a[2] + 1>>

None == <<>>

Some(v) == <<v>>

(***************************************************************************)
(* Characters.                                                             *)
(***************************************************************************)
Digits == {"0", "1", "2", "3", "4", "5", "6", "7", "8", "9"}

is_ascii_digit(c) == c \in Digits

DigitValue(c) ==
    CASE c = "0" -> 0 [] c = "1" -> 1 [] c = "2" -> 2 [] c = "3" -> 3
      [] c = "4" -> 4 [] c = "5" -> 5 [] c = "6" -> 6 [] c = "7" -> 7
      [] c = "8" -> 8 [] c = "9" -> 9

DigitChar(d) == <<"0", "1", "2", "3", "4", "5", "6", "7", "8", "9">>[d + 1]

(***************************************************************************)
(* The error type (crate::error::FlywayNaimngCheckerError) and Ok(()).     *)
(* Every outcome is a record of the same shape; a field a variant does not *)
(* carry is the empty string.                                              *)
(***************************************************************************)
Outcome(k, f, e, fnd, p) ==
    [kind |-> k, file |-> f, expected |-> e, found |-> fnd, prefix |-> p]

Ok == Outcome("Ok", <<>>, <<>>, <<>>, <<>>)

FlywayNamingPrefixError(f, e, fnd) ==
    Outcome("FlywayNamingPrefixError", f, e, fnd, <<>>)

FlywayNamingCanNotFindPrefix(f) ==
    Outcome("FlywayNamingCanNotFindPrefix", f, <<>>, <<>>, <<>>)

FlywayNamingSufixError(f, e, fnd) ==
    Outcome("FlywayNamingSufixError", f, e, fnd, <<>>)

FlywayNamingSeparatorError(f) ==
    Outcome("FlywayNamingSeparatorError", f, <<>>, <<>>, <<>>)

FlywayNamingCanNotFindVersion(f) ==
    Outcome("FlywayNamingCanNotFindVersion", f, <<>>, <<>>, <<>>)

FlywayNamingVersionError(f, p, fnd) ==
    Outcome("FlywayNamingVersionError", f, <<>>, fnd, p)

DuplicateVersion(f) == Outcome("DuplicateVersion", f, <<>>, <<>>, <<>>)

SkippedVersion(f) == Outcome("SkippedVersion", f, <<>>, <<>>, <<>>)

\* The abort of a build with overflow checks on "attempt to add with overflow".
OverflowPanic == Outcome("Panic", <<>>, <<>>, <<>>, <<>>)

\* No function has been called yet.
NotCalled == Outcome("NotCalled", <<>>, <<>>, <<>>, <<>>)

(***************************************************************************)
(* is_valid_prefix                                                         *)
(***************************************************************************)
is_valid_prefix_ignore_case(f) ==
    IF f = <<>>
    THEN FlywayNamingCanNotFindPrefix(f)
    ELSE LET prefix == f[1]
             expected_prefix ==
                 IF prefix = "r" THEN <<"r">>
                 ELSE IF prefix = "u" THEN <<"u">>
                 ELSE <<"V">>
         IN  IF ~(prefix \in {"V", "U", "R", "v", "u", "r"})
             THEN FlywayNamingPrefixError(f, expected_prefix, <<prefix>>)
             ELSE Ok

is_valid_prefix_hint_v(f) ==
    IF f = <<>>
    THEN FlywayNamingCanNotFindPrefix(f)
    ELSE LET prefix == f[1]
             expected_prefix ==
                 IF prefix = "r" THEN <<"r">>
                 ELSE IF prefix = "u" THEN <<"u">>
                 ELSE IF prefix = "v" THEN <<"v">>
                 ELSE <<"V">>
         IN  IF ~(prefix = "V" \/ prefix = "U" \/ prefix = "R")
             THEN FlywayNamingPrefixError(f, expected_prefix, <<prefix>>)
             ELSE Ok

is_valid_prefix(f) ==
    IF f = <<>>
    THEN FlywayNamingCanNotFindPrefix(f)
    ELSE LET prefix == f[1]
             expected_prefix ==
                 IF prefix = "r" THEN <<"r">>
                 ELSE IF prefix = "u" THEN <<"u">>
                 ELSE <<"V">>
         IN  IF ~(prefix = "V" \/ prefix = "U" \/ prefix = "R")
             THEN FlywayNamingPrefixError(f, expected_prefix, <<prefix>>)
             ELSE Ok

(***************************************************************************)
(* is_valid_suffix                                                         *)
(***************************************************************************)
RECURSIVE rfind_from(_, _, _)
\* Scan from index i down to 1 for character c; None when there is none.
rfind_from(f, c, i) ==
    IF i = 0 THEN None
    ELSE IF f[i] = c THEN Some(i)
    ELSE rfind_from(f, c, i - 1)

rfind(f, c) == rfind_from(f, c, Len(f))

RECURSIVE find_from(_, _, _)
find_from(f, c, i) ==
    IF i > Len(f) THEN None
    ELSE IF f[i] = c THEN Some(i)
    ELSE find_from(f, c, i + 1)

SqlText == <<"s", "q", "l">>

DotSqlText == <<".", "s", "q", "l">>

suffix_check(f, dot) ==
    IF dot # None
    THEN LET dot_index == dot[1]
             suffix == SubSeq(f, dot_index + 1, Len(f))
         IN  IF suffix # SqlText
             THEN FlywayNamingSufixError(f, DotSqlText, suffix)
             ELSE Ok
    ELSE Ok

is_valid_suffix_first_dot(f) == suffix_check(f, find_from(f, ".", 1))

is_valid_suffix(f) == suffix_check(f, rfind(f, "."))

(***************************************************************************)
(* str::split("__"): matches are found left to right and do not overlap.   *)
(***************************************************************************)
RECURSIVE split_from(_, _, _)
split_from(f, i, cur) ==
    IF i > Len(f) THEN <<cur>>
    ELSE IF i < Len(f) /\ f[i] = "_" /\ f[i + 1] = "_"
         THEN <<cur>> \o split_from(f, i + 2, <<>>)
         ELSE split_from(f, i + 1, Append(cur, f[i]))

split(f) == split_from(f, 1, <<>>)

(***************************************************************************)
(* is_valid_sepeartor                                                      *)
(***************************************************************************)
is_valid_sepeartor_at_least_two(f) ==
    LET parts == split(f)
    IN  IF Len(parts) < 2 THEN FlywayNamingSeparatorError(f) ELSE Ok

is_valid_sepeartor(f) ==
    LET parts == split(f)
    IN  IF Len(parts) # 2 THEN FlywayNamingSeparatorError(f) ELSE Ok

(***************************************************************************)
(* is_valid_version                                                        *)
(***************************************************************************)
is_valid_version_checks_r(f) ==
    IF f = <<>>
    THEN FlywayNamingCanNotFindPrefix(f)
    ELSE LET first_char == f[1]
         IN  IF first_char \in {"V", "U", "R"}
             THEN IF Len(f) < 2
                  THEN FlywayNamingCanNotFindVersion(f)
                  ELSE LET second_char == f[2]
                       IN  IF is_ascii_digit(second_char)
                           THEN Ok
                           ELSE FlywayNamingVersionError(
                                    f, <<first_char>>, <<second_char>>)
             ELSE FlywayNamingPrefixError(f, <<"V">>, <<first_char>>)

is_valid_version(f) ==
    IF f = <<>>
    THEN FlywayNamingCanNotFindPrefix(f)
    ELSE LET first_char == f[1]
         IN  IF first_char \in {"V", "U"}
             THEN IF Len(f) < 2
                  THEN FlywayNamingCanNotFindVersion(f)
                  ELSE LET second_char == f[2]
                       IN  IF is_ascii_digit(second_char)
                           THEN Ok
                           ELSE FlywayNamingVersionError(
                                    f, <<first_char>>, <<second_char>>)
             ELSE IF first_char = "R"
             THEN Ok
             ELSE FlywayNamingPrefixError(f, <<"V">>, <<first_char>>)

(***************************************************************************)
(* extract_version                                                         *)
(***************************************************************************)
RECURSIVE trim_start_matches_non_digit(_)
\* str::trim_start_matches(|c| !c.is_ascii_digit())
trim_start_matches_non_digit(s) ==
    IF s = <<>> \/ is_ascii_digit(s[1]) THEN s
    ELSE trim_start_matches_non_digit(Tail(s))

RECURSIVE parse_digits(_, _, _)
\* The accumulation of str::parse::<u32>: acc * 10 + digit with checked
\* arithmetic; None on a character that is no digit and on overflow.
parse_digits(s, i, acc) ==
    IF i > Len(s) THEN Some(acc)
    ELSE IF ~is_ascii_digit(s[i]) THEN None
    ELSE LET lo == acc[2] * 10 + DigitValue(s[i])
             hi == acc[1] * 10 + (lo \div LimbBase)
         IN  IF hi >= LimbBase THEN None
             ELSE parse_digits(s, i + 1, <<hi, lo % LimbBase>>)

\* str::parse::<u32>: an empty string is an error, one leading '+' is allowed.
parse_u32(s) ==
    IF s = <<>> THEN None
    ELSE LET digits == IF s[1] = "+" THEN Tail(s) ELSE s
         IN  IF digits = <<>> THEN None ELSE parse_digits(digits, 1, U32Zero)

extract_version_no_trim(f) ==
    LET parts == split(f)
    IN  IF Len(parts) # 2 THEN None ELSE parse_u32(parts[1])

extract_version(f) ==
    LET parts == split(f)
    IN  IF Len(parts) # 2 THEN None
        ELSE LET version_part == trim_start_matches_non_digit(parts[1])
             IN  parse_u32(version_part)

(***************************************************************************)
(* check_for_duplicate_versions                                            *)
(***************************************************************************)
RECURSIVE duplicate_loop(_, _, _)
\* The for loop from file i on, `versions` being the HashSet so far.
duplicate_loop(fs, i, versions) ==
    IF i > Len(fs) THEN Ok
    ELSE LET version == extract_version(fs[i])
         IN  IF version # None
             THEN IF version[1] \in versions
                  THEN DuplicateVersion(fs[i])
                  ELSE duplicate_loop(fs, i + 1, versions \cup {version[1]})
             ELSE duplicate_loop(fs, i + 1, versions)

RECURSIVE duplicate_loop_first_holder(_, _, _)
\* As duplicate_loop, `seen` mapping each version to the file that brought it;
\* names that file instead of the colliding one.
duplicate_loop_first_holder(fs, i, seen) ==
    IF i > Len(fs) THEN Ok
    ELSE LET version == extract_version(fs[i])
         IN  IF version # None
             THEN IF \E e \in seen : e[1] = version[1]
                  THEN DuplicateVersion(
                           fs[(CHOOSE e \in seen : e[1] = version[1])[2]])
                  ELSE duplicate_loop_first_holder(
                           fs, i + 1, seen \cup {<<version[1], i>>})
             ELSE duplicate_loop_first_holder(fs, i + 1, seen)

check_for_duplicate_versions_names_first(fs) ==
    duplicate_loop_first_holder(fs, 1, {})

check_for_duplicate_versions(fs) == duplicate_loop(fs, 1, {})

(***************************************************************************)
(* check_for_skipped_versions                                              *)
(***************************************************************************)
RECURSIVE filter_map_extract_version(_, _)
filter_map_extract_version(fs, i) ==
    IF i > Len(fs) THEN <<>>
    ELSE extract_version(fs[i]) \o filter_map_extract_version(fs, i + 1)

RECURSIVE insert_sorted(_, _)
insert_sorted(v, s) ==
    IF s = <<>> THEN <<v>>
    ELSE IF U32Le(v, s[1]) THEN <<v>> \o s
    ELSE <<s[1]>> \o insert_sorted(v, Tail(s))

RECURSIVE sort_unstable(_)
\* Ascending order; equal u32 values are indistinguishable, so the order an
\* unstable sort leaves them in does not show.
sort_unstable(s) ==
    IF s = <<>> THEN <<>> ELSE insert_sorted(s[1], sort_unstable(Tail(s)))

RECURSIVE to_decimal(_)
\* Display of a u32: its decimal digits, no leading zero.
to_decimal(v) ==
    LET q_hi == v[1] \div 10
        t == (v[1] % 10) * LimbBase + v[2]
        q == <<q_hi, t \div 10>>
        d == DigitChar(t % 10)
    IN  IF q = U32Zero THEN <<d>> ELSE to_decimal(q) \o <<d>>

\* format!("From V{} to V{}", a, b)
format_from_to(a, b) ==
    <<"F", "r", "o", "m", " ", "V">> \o to_decimal(a)
        \o <<" ", "t", "o", " ", "V">> \o to_decimal(b)

RECURSIVE windows_loop(_, _, _)
\* The loop over versions.windows(2) from window i on.  window[0] + 1
\* overflows when window[0] is u32::MAX: a build with overflow checks
\* (overflow_checks) panics there, a build without them wraps to 0.
windows_loop(versions, i, overflow_checks) ==
    IF i >= Len(versions) THEN Ok
    ELSE LET window0 == versions[i]
             window1 == versions[i + 1]
         IN  IF window0 = U32Max /\ overflow_checks THEN OverflowPanic
             ELSE IF window1 # WrappingAddOne(window0)
             THEN SkippedVersion(format_from_to(window0, window1))
             ELSE windows_loop(versions, i + 1, overflow_checks)

check_for_skipped_versions(fs, overflow_checks) ==
    LET versions == filter_map_extract_version(fs, 1)
    IN  IF versions = <<>> THEN Ok
        ELSE windows_loop(sort_unstable(versions), 1, overflow_checks)

(***************************************************************************)
(* The inputs explored.  Short names are every string over Alphabet up to  *)
(* MaxLen characters; shaped names follow the layout of a migration file   *)
(* name (prefix, version, separator, description, extension), each part    *)
(* drawn from texts that cover the cases of the validators, the largest    *)
(* u32 and the first value above it included.                              *)
(***************************************************************************)
Alphabet == {"V", "U", "R", "u", "r", "v", "1", "_", ".", "a"}

ShortNames == UNION {[1..n -> Alphabet] : n \in 0..MaxLen}

PrefixTexts ==
    { <<>>,
      <<"V">>,
      <<"U">>,
      <<"R">>,
      <<"u">> }

VersionTexts ==
    { <<>>,
      <<"1">>,
      <<"0", "1">>,
      <<"2">>,
      <<"1", "a">>,
      <<"4", "2", "9", "4", "9", "6", "7", "2", "9", "5">>,
      <<"4", "2", "9", "4", "9", "6", "7", "2", "9", "6">> }

SeparatorTexts ==
    { <<>>,
      <<"_">>,
      <<"_", "_">>,
      <<"_", "_", "_">>,
      <<"_", "_", "_", "_">> }

DescriptionTexts ==
    { <<>>,
      <<"a">>,
      <<"a", "_", "_", "b">>,
      <<"a", ".", "b">> }

ExtensionTexts ==
    { <<>>,
      <<".", "s", "q", "l">>,
      <<".", "S", "Q", "L">>,
      <<".", "s", "q", "l", "x">>,
      <<".">> }

ShapedNames ==
    { p \o v \o s \o d \o e :
        p \in PrefixTexts, v \in VersionTexts, s \in SeparatorTexts,
        d \in DescriptionTexts, e \in ExtensionTexts }

FileNames == ShortNames \cup ShapedNames

\* The file names the collections are built from.
CollectionNames ==
    { <<"V", "1", "_", "_", "a">>,
      <<"V", "2", "_", "_", "a">>,
      <<"V", "3", "_", "_", "a">>,
      <<"U", "1", "_", "_", "b">>,
      <<"V", "0", "1", "_", "_", "b">>,
      <<"R", "_", "_", "a">>,
      <<"V", "1", "_", "a">>,
      <<"V", "4", "2", "9", "4", "9", "6", "7", "2", "9", "4", "_", "_", "a">>,
      <<"V", "4", "2", "9", "4", "9", "6", "7", "2", "9", "5", "_", "_", "a">>,
      <<"U", "4", "2", "9", "4", "9", "6", "7", "2", "9", "5", "_", "_", "b">>,
      <<"V", "4", "2", "9", "4", "9", "6", "7", "2", "9", "6", "_", "_", "a">> }

FileLists == UNION {[1..n -> CollectionNames] : n \in 0..MaxFiles}

(***************************************************************************)
(* The state: the arguments a caller holds (one file name, one collection  *)
(* of file names), the function called last and what it returned.  The     *)
(* functions are pure: a call reads its argument and leaves it alone.      *)
(***************************************************************************)
Init ==
    /\ op = "none"
    /\ result = NotCalled
    /\ \/ file_name \in FileNames /\ file_names = <<>>
       \/ file_name = <<>> /\ file_names \in FileLists

IsValidPrefix ==
    /\ op' = "is_valid_prefix"
    /\ result' = is_valid_prefix(file_name)
    /\ UNCHANGED <<file_name, file_names>>

IsValidSuffix ==
    /\ op' = "is_valid_suffix"
    /\ result' = is_valid_suffix(file_name)
    /\ UNCHANGED <<file_name, file_names>>

IsValidSepeartor ==
    /\ op' = "is_valid_sepeartor"
    /\ result' = is_valid_sepeartor(file_name)
    /\ UNCHANGED <<file_name, file_names>>

IsValidVersion ==
    /\ op' = "is_valid_version"
    /\ result' = is_valid_version(file_name)
    /\ UNCHANGED <<file_name, file_names>>

CheckForDuplicateVersions ==
    /\ op' = "check_for_duplicate_versions"
    /\ result' = check_for_duplicate_versions(file_names)
    /\ UNCHANGED <<file_name, file_names>>

\* The sum window[0] + 1 is checked or wrapping according to the build.
CheckForSkippedVersions ==
    /\ op' = "check_for_skipped_versions"
    /\ \E overflow_checks \in BOOLEAN :
           result' = check_for_skipped_versions(file_names, overflow_checks)
    /\ UNCHANGED <<file_name, file_names>>

Next ==
    \/ IsValidPrefix
    \/ IsValidSuffix
    \/ IsValidSepeartor
    \/ IsValidVersion
    \/ CheckForDuplicateVersions
    \/ CheckForSkippedVersions

Spec == Init /\ [][Next]_vars

(***************************************************************************)
(* Vocabulary of the properties.                                           *)
(***************************************************************************)
AcceptedPrefixes == {"V", "U", "R"}

HasDot(f) == \E i \in DOMAIN f : f[i] = "."

LastDot(f) ==
    CHOOSE i \in DOMAIN f :
        f[i] = "." /\ \A j \in DOMAIN f : j > i => f[j] # "."

AfterLastDot(f) == SubSeq(f, LastDot(f) + 1, Len(f))

EndsWithDotSql(f) ==
    Len(f) >= 4 /\ SubSeq(f, Len(f) - 3, Len(f)) = <<".", "s", "q", "l">>

\* The positions at which the substring "__" occurs (overlaps counted).
SeparatorOccurrences(f) ==
    {i \in 1..(Len(f) - 1) : f[i] = "_" /\ f[i + 1] = "_"}

\* The maximal runs <<first, last>> of two or more consecutive underscores.
UnderscoreRuns(f) ==
    {r \in (DOMAIN f) \X (DOMAIN f) :
        /\ r[1] < r[2]
        /\ \A k \in r[1]..r[2] : f[k] = "_"
        /\ (r[1] = 1 \/ f[r[1] - 1] # "_")
        /\ (r[2] = Len(f) \/ f[r[2] + 1] # "_")}

\* Exactly one occurrence of "__" when occurrences may not overlap: one run
\* of two or three underscores and no other run of two or more.
OneDisjointSeparator(f) ==
    /\ Cardinality(UnderscoreRuns(f)) = 1
    /\ \A r \in UnderscoreRuns(f) : r[2] - r[1] + 1 \in {2, 3}

\* The text between the prefix letter and the first "__".
VersionText(f) ==
    LET first == CHOOSE i \in SeparatorOccurrences(f) :
                     \A j \in SeparatorOccurrences(f) : i <= j
    IN  SubSeq(f, 2, first - 1)

U32MaxText == <<"4", "2", "9", "4", "9", "6", "7", "2", "9", "5">>

\* d is a non-empty string of ASCII digits whose value is at most u32::MAX.
DecimalInU32(d) ==
    /\ d # <<>>
    /\ \A i \in DOMAIN d : d[i] \in Digits
    /\ LET zeros == Cardinality({i \in DOMAIN d :
                         \A j \in 1..i : d[j] = "0"})
           n == SubSeq(d, zeros + 1, Len(d))
       IN  \/ Len(n) < 10
           \/ /\ Len(n) = 10
              /\ \/ n = U32MaxText
                 \/ \E i \in 1..10 :
                        /\ \A j \in 1..(i - 1) : n[j] = U32MaxText[j]
                        /\ DigitValue(n[i]) < DigitValue(U32MaxText[i])

ExtractedVersion(i) == extract_version(file_names[i])

\* The files whose version an earlier file of the collection already has.
Colliding ==
    {j \in DOMAIN file_names :
        /\ ExtractedVersion(j) # None
        /\ \E i \in 1..(j - 1) : ExtractedVersion(i) = ExtractedVersion(j)}

Least(S) == CHOOSE i \in S : \A j \in S : i <= j

SortedVersions == sort_unstable(filter_map_extract_version(file_names, 1))

\* The adjacent pairs of the sorted versions whose second is not the first
\* plus one (as numbers: u32::MAX has no successor).
Gaps ==
    {i \in 1..(Len(SortedVersions) - 1) :
        \/ SortedVersions[i] = U32Max
        \/ SortedVersions[i + 1] # WrappingAddOne(SortedVersions[i])}

C2_DuplicateNamesSecondOccurrence ==
    op = "check_for_duplicate_versions"
        => IF Colliding = {}
           THEN result = Ok
           ELSE result = DuplicateVersion(file_names[Least(Colliding)])

C2_Witness ==
    /\ op = "check_for_duplicate_versions"
    /\ Len(file_names) = 3
    /\ ExtractedVersion(2) = None
    /\ ExtractedVersion(1) = ExtractedVersion(3)
    /\ file_names[1] # file_names[3]
    /\ result = DuplicateVersion(file_names[3])

(***************************************************************************)
(* C3, as claimed: check_for_skipped_versions returns Ok exactly when      *)
(* every adjacent pair of the sorted versions differs by 1, and otherwise  *)
(* SkippedVersion "From V{a} to V{b}" for the first pair that does not.    *)
(* Refuted by the overflow of C10: on two files of version 4294967295 a    *)
(* build with overflow checks panics.                                      *)
(***************************************************************************)
C3_SkippedReportsFirstGap ==
    op = "check_for_skipped_versions"
        => IF Gaps = {}
           THEN result = Ok
           ELSE result = SkippedVersion(
                    format_from_to(SortedVersions[Least(Gaps)],
                                   SortedVersions[Least(Gaps) + 1]))

(***************************************************************************)
(* C4, as claimed: is_valid_sepeartor returns Ok when "__" occurs exactly  *)
(* once in the name and a Separator error when it occurs zero or two or    *)
(* more times, runs of three or more underscores included.  Refuted:       *)
(* "___" is accepted.                                                      *)
(***************************************************************************)
C4_OneOccurrence ==
    op = "is_valid_sepeartor"
        => IF Cardinality(SeparatorOccurrences(file_name)) = 1
           THEN result = Ok
           ELSE result = FlywayNamingSeparatorError(file_name)

(***************************************************************************)
(* C4, amended: is_valid_sepeartor returns Ok exactly when the name holds  *)
(* one occurrence of "__" counting occurrences that do not overlap, that   *)
(* is one run of two or three consecutive underscores and no other run of  *)
(* two or more; otherwise it returns a Separator error naming the file.    *)
(***************************************************************************)
C4_OneDisjointOccurrence ==
    op = "is_valid_sepeartor"
        => IF OneDisjointSeparator(file_name)
           THEN result = Ok
           ELSE result = FlywayNamingSeparatorError(file_name)

C4_Witness ==
    /\ op = "is_valid_sepeartor"
    /\ result = Ok
    /\ Len(file_name) > 3
    /\ Cardinality(SeparatorOccurrences(file_name)) = 2

(***************************************************************************)
(* C5, as claimed: for a first character other than V, U and R,            *)
(* is_valid_version returns the Prefix error is_valid_prefix returns.      *)
(* Refuted: for "u" and "r" the expected values differ.                    *)
(***************************************************************************)
C5_SamePrefixError ==
    ( /\ op = "is_valid_version"
      /\ file_name # <<>>
      /\ file_name[1] \notin AcceptedPrefixes )
        => /\ result.kind = "FlywayNamingPrefixError"
           /\ result = is_valid_prefix(file_name)

(***************************************************************************)
(* C5, amended: for a first character other than V, U, R, u and r,         *)
(* is_valid_version returns the Prefix error is_valid_prefix returns; for  *)
(* u and r the two errors agree on file and found and differ in expected,  *)
(* "V" from is_valid_version and the lowercase letter from                 *)
(* is_valid_prefix.                                                        *)
(***************************************************************************)
C5_SamePrefixErrorButHint ==
    ( /\ op = "is_valid_version"
      /\ file_name # <<>>
      /\ file_name[1] \notin AcceptedPrefixes )
        => /\ result.kind = "FlywayNamingPrefixError"
           /\ IF file_name[1] \in {"u", "r"}
              THEN /\ result.expected = <<"V">>
                   /\ is_valid_prefix(file_name) =
                          [result EXCEPT !.expected = <<file_name[1]>>]
              ELSE result = is_valid_prefix(file_name)

C5_Witness ==
    /\ op = "is_valid_version"
    /\ Len(file_name) >= 2
    /\ file_name[1] \notin AcceptedPrefixes \cup {"u", "r"}
    /\ result = FlywayNamingPrefixError(file_name, <<"V">>, <<file_name[1]>>)

(***************************************************************************)
(* C6: is_valid_prefix returns Ok exactly when the first character is V,   *)
(* U or R; NoPrefix for the empty name; otherwise a Prefix error with the  *)
(* character found and expected "u" for u, "r" for r and "V" for anything  *)
(* else, lowercase v included.                                             *)
(***************************************************************************)
C6_PrefixOutcome ==
    op = "is_valid_prefix"
        => /\ (result = Ok)
                  <=> (file_name # <<>> /\ file_name[1] \in AcceptedPrefixes)
           /\ file_name = <<>>
                  => result = FlywayNamingCanNotFindPrefix(file_name)
           /\ (file_name # <<>> /\ file_name[1] \notin AcceptedPrefixes)
                  => result = FlywayNamingPrefixError(
                                  file_name,
                                  IF file_name[1] \in {"u", "r"}
                                  THEN <<file_name[1]>> ELSE <<"V">>,
                                  <<file_name[1]>>)

C6_Witness ==
    /\ op = "is_valid_prefix"
    /\ file_name # <<>>
    /\ file_name[1] = "v"
    /\ result.kind = "FlywayNamingPrefixError"
    /\ result.expected = <<"V">>

(***************************************************************************)
(* C7: for a name starting with V or U, is_valid_version returns Ok        *)
(* exactly when the second character is an ASCII digit, a Version error    *)
(* with the prefix and the second character when it is not, and NoVersion  *)
(* when there is no second character; for a name starting with R it        *)
(* returns Ok whatever follows; for the empty name it returns NoPrefix.    *)
(***************************************************************************)
C7_VersionOutcome ==
    op = "is_valid_version"
        => /\ file_name = <<>>
                  => result = FlywayNamingCanNotFindPrefix(file_name)
           /\ (file_name # <<>> /\ file_name[1] = "R") => result = Ok
           /\ (file_name # <<>> /\ file_name[1] \in {"V", "U"})
                  => /\ Len(file_name) = 1
                         => result = FlywayNamingCanNotFindVersion(file_name)
                     /\ Len(file_name) >= 2
                         => /\ (result = Ok) <=> (file_name[2] \in Digits)
                            /\ file_name[2] \notin Digits
                                   => result = FlywayNamingVersionError(
                                                   file_name,
                                                   <<file_name[1]>>,
                                                   <<file_name[2]>>)

C7_Witness ==
    /\ op = "is_valid_version"
    /\ Len(file_name) >= 2
    /\ file_name[1] = "R"
    /\ file_name[2] \notin Digits
    /\ result = Ok

(***************************************************************************)
(* C8: is_valid_suffix returns Ok for every name that ends in ".sql" and   *)
(* for every name without a '.'; for a name whose text after its last '.'  *)
(* is not exactly "sql" it returns a Suffix error with that text as found  *)
(* and ".sql" as expected.                                                 *)
(***************************************************************************)
C8_SuffixOutcome ==
    op = "is_valid_suffix"
        => /\ EndsWithDotSql(file_name) => result = Ok
           /\ ~HasDot(file_name) => result = Ok
           /\ (HasDot(file_name)
                   /\ AfterLastDot(file_name) # <<"s", "q", "l">>)
                  => result = FlywayNamingSufixError(
                                  file_name,
                                  <<".", "s", "q", "l">>,
                                  AfterLastDot(file_name))

C8_Witness ==
    /\ op = "is_valid_suffix"
    /\ EndsWithDotSql(file_name)
    /\ HasDot(SubSeq(file_name, 1, Len(file_name) - 4))
    /\ result = Ok

(***************************************************************************)
(* C9, as claimed: whenever check_for_duplicate_versions returns a         *)
(* DuplicateVersion error on a collection, check_for_skipped_versions      *)
(* returns a SkippedVersion error on it.  Refuted by the overflow of C10:  *)
(* when the repeated version is 4294967295 a build with overflow checks    *)
(* panics instead.                                                         *)
(***************************************************************************)
C9_DuplicateImpliesSkipped ==
    ( /\ op = "check_for_skipped_versions"
      /\ check_for_duplicate_versions(file_names).kind = "DuplicateVersion" )
        => result.kind = "SkippedVersion"

(***************************************************************************)
(* C10, as claimed: window[0] + 1 never leaves the u32 range, so           *)
(* check_for_skipped_versions always returns Ok or a SkippedVersion error  *)
(* and never aborts.  Refuted: two files of version 4294967295.            *)
(***************************************************************************)
C10_NoOverflow ==
    op = "check_for_skipped_versions"
        => /\ result.kind \in {"Ok", "SkippedVersion"}
           /\ \A i \in 1..(Len(SortedVersions) - 1) :
                  (\A j \in 1..(i - 1) :
                       SortedVersions[j + 1]
                           = WrappingAddOne(SortedVersions[j]))
                      => SortedVersions[i] # U32Max

====
